---- MODULE Spec2Model ----
(***************************************************************************)
(* Model of screenshot-tool/create_test_workbook.py: the generator of the  *)
(* fixture TestWorkbook_HR_Estimate.xlsx.  The workbook under construction *)
(* is the state; every statement group / loop iteration of                 *)
(* create_test_workbook() is one action.  The process can be started again *)
(* against the file left behind by the previous run.                       *)
(***************************************************************************)
EXTENDS Integers, Sequences, FiniteSets, TLC

VARIABLES wb, ws1, ws2, ws3, pc, i, j, file, fileAtStart, out, run

vars == <<wb, ws1, ws2, ws3, pc, i, j, file, fileAtStart, out, run>>

\* Number of times the program is started, one after the other.
MaxRuns == 2

----------------------------------------------------------------------------
(* Text helpers: what the f-strings and openpyxl.utils do.                 *)

Letters == "ABCDEFGHIJKLMNOPQRSTUVWXYZ"
Digits == "0123456789"

Chars(s) == [k \in 1..Len(s) |-> SubSeq(s, k, k)]

\* str(n) of a non-negative int, as the f-string {row} renders it
RECURSIVE Str(_)
Str(n) ==
    IF n < 10 THEN SubSeq(Digits, n + 1, n + 1)
    ELSE Str(n \div 10) \o SubSeq(Digits, (n % 10) + 1, (n % 10) + 1)

\* openpyxl.utils.get_column_letter: bijective base 26
RECURSIVE get_column_letter(_)
get_column_letter(n) ==
    IF n <= 26 THEN SubSeq(Letters, n, n)
    ELSE get_column_letter((n - 1) \div 26)
            \o SubSeq(Letters, ((n - 1) % 26) + 1, ((n - 1) % 26) + 1)

----------------------------------------------------------------------------
(* Styles and cells                                                        *)

blue_fill == "D9E1F2"
green_fill == "E2EFDA"
orange_fill == "FCE4D6"
gray_fill == "F2F2F2"
red_fill == "FC9090"
NoFill == "none"
bold_font == [bold |-> TRUE, color |-> "default"]
red_font == [bold |-> FALSE, color |-> "990000"]
DefaultFont == [bold |-> FALSE, color |-> "default"]
thin_border == "bottom-thin"
NoBorder == "none"

\* A cell nobody has touched: no value, default style.
DefaultCell ==
    [kind |-> "empty", num |-> 0, str |-> "", font |-> DefaultFont,
     fill |-> NoFill, border |-> NoBorder, number_format |-> "General"]

\* cell.value = <int>
SetNum(cl, n) == [cl EXCEPT !.kind = "n", !.num = n, !.str = ""]

\* cell.value = <float>, kept in hundredths (0.1 -> 10, 0.15 -> 15)
SetFloat(cl, hundredths) == [cl EXCEPT !.kind = "float", !.num = hundredths, !.str = ""]

\* cell.value = <str>: openpyxl types a string starting with "=" as a formula
SetStr(cl, s) ==
    [cl EXCEPT !.kind = IF Len(s) > 1 /\ SubSeq(s, 1, 1) = "=" THEN "f" ELSE "s",
               !.num = 0, !.str = s]

EmptySheet(title) ==
    [title |-> title, cells |-> <<>>, cf |-> {}, freeze_panes |-> "none",
     widths |-> <<>>]

\* ws.cell(row, column) read: the cell if it exists, else a fresh one
Cell(sh, r, c) ==
    IF <<r, c>> \in DOMAIN sh.cells THEN sh.cells[<<r, c>>] ELSE DefaultCell

PutCell(sh, r, c, cl) == [sh EXCEPT !.cells = (<<r, c>> :> cl) @@ sh.cells]

SetWidth(sh, col, w) == [sh EXCEPT !.widths = (col :> w) @@ sh.widths]

----------------------------------------------------------------------------
(* Workbook                                                                *)

\* variant: the existing output file is opened and extended
WorkbookFromFile ==
    IF file.kind = "xlsx"
    THEN [sheets |-> file.sheets, active |-> file.active, names |-> file.names]
    ELSE [sheets |-> <<[title |-> "Sheet", cells |-> <<>>, cf |-> {},
                        freeze_panes |-> "none", widths |-> <<>>]>>,
          active |-> 1, names |-> {}]

\* Workbook(): one default sheet "Sheet", active
Workbook ==
    [sheets |-> <<EmptySheet("Sheet")>>, active |-> 1, names |-> {}]

Titles(w) == {w.sheets[k].title : k \in DOMAIN w.sheets}

\* openpyxl avoids duplicate titles by appending the first free number
RECURSIVE FreeTitle(_, _, _)
FreeTitle(w, title, n) ==
    IF n = 0
    THEN IF title \in Titles(w) THEN FreeTitle(w, title, 1) ELSE title
    ELSE IF (title \o Str(n)) \in Titles(w)
         THEN FreeTitle(w, title, n + 1) ELSE title \o Str(n)

\* wb.create_sheet(title): appended at the end
create_sheet(w, title) ==
    [w EXCEPT !.sheets = Append(@, EmptySheet(FreeTitle(w, title, 0)))]

\* variant: a sheet of that title is created instead of renaming the active one
SetTitleNew(w, idx, title) == create_sheet(w, title)

\* ws.title = value (the sheet's own title does not count as a duplicate)
SetTitle(w, idx, title) ==
    LET others == [w EXCEPT !.sheets = [k \in DOMAIN w.sheets |->
                      IF k = idx THEN EmptySheet("") ELSE w.sheets[k]]]
    IN [w EXCEPT !.sheets[idx].title = FreeTitle(others, title, 0)]

\* What reaches the file: cells without value and without style are skipped
HasStyle(cl) ==
    \/ cl.font # DefaultFont \/ cl.fill # NoFill
    \/ cl.border # NoBorder \/ cl.number_format # "General"

WrittenCells(sh) ==
    LET keep == {p \in DOMAIN sh.cells :
                    sh.cells[p].kind # "empty" \/ HasStyle(sh.cells[p])}
    IN [p \in keep |-> sh.cells[p]]

Serialize(w) ==
    [kind |-> "xlsx",
     sheets |-> [k \in DOMAIN w.sheets |->
                    [w.sheets[k] EXCEPT !.cells = WrittenCells(w.sheets[k])]],
     active |-> w.active,
     names |-> w.names]

NoContent(kind) == [kind |-> kind, sheets |-> <<>>, active |-> 0, names |-> {}]

----------------------------------------------------------------------------
(* Hard-coded tables                                                       *)

headers == <<"No", "Name", "Dept", "Grade", "BaseSalary",
             "RoleAllow", "Commute", "Total", "MoM", "Note">>

sub_headers == <<"", "", "", "", "(JPY)", "(JPY)", "(JPY)", "(JPY)", "(%)", "">>

\* variant: one record carries a department that has no summary row
dataOtherDept == <<
    <<1, "Tanaka",    "Sales", "M1", 350000, 50000, 15000>>,
    <<2, "Yamada",    "HR",    "S3", 280000, 0,     20000>>,
    <<3, "Suzuki",    "Tech",  "E2", 320000, 30000, 12000>>,
    <<4, "Sato",      "Sales", "M2", 380000, 60000, 18000>>,
    <<5, "Takahashi", "Ops",   "S2", 260000, 0,     10000>>,
    <<6, "Watanabe",  "Tech",  "E3", 340000, 35000, 25000>>,
    <<7, "Ito",       "HR",    "S1", 250000, 0,     8000>>,
    <<8, "Nakamura",  "Sales", "M1", 350000, 50000, 15000>>,
    <<9, "Kobayashi", "Tech",  "E1", 300000, 20000, 22000>>,
    <<10, "Kato",     "Admin", "S3", 280000, 0,     10000>> >>

data == <<
    <<1, "Tanaka",    "Sales", "M1", 350000, 50000, 15000>>,
    <<2, "Yamada",    "HR",    "S3", 280000, 0,     20000>>,
    <<3, "Suzuki",    "Tech",  "E2", 320000, 30000, 12000>>,
    <<4, "Sato",      "Sales", "M2", 380000, 60000, 18000>>,
    <<5, "Takahashi", "Admin", "S2", 260000, 0,     10000>>,
    <<6, "Watanabe",  "Tech",  "E3", 340000, 35000, 25000>>,
    <<7, "Ito",       "HR",    "S1", 250000, 0,     8000>>,
    <<8, "Nakamura",  "Sales", "M1", 350000, 50000, 15000>>,
    <<9, "Kobayashi", "Tech",  "E1", 300000, 20000, 22000>>,
    <<10, "Kato",     "Admin", "S3", 280000, 0,     10000>> >>

col_widths == <<5, 14, 8, 8, 12, 12, 12, 14, 8, 10>>

dept_headers == <<"Dept", "Count", "TotalCost", "AvgSalary">>

depts == <<"Sales", "HR", "Tech", "Admin">>

\* (name, kind, string value, numeric value)
settings == <<
    <<"CalcMonth", "s", "2026-02", 0>>,
    <<"TaxRate", "float", "", 10>>,
    <<"InsuranceRate", "float", "", 15>>,
    <<"CommuteLimit", "n", "", 30000>>,
    <<"Author", "s", "BP_User", 0>> >>

----------------------------------------------------------------------------
(* Formula texts written by the f-strings                                  *)

\* variant: the last operand is taken from the next row
TotalFormulaNextRow(row) ==
    "=E" \o Str(row) \o "+F" \o Str(row) \o "+G" \o Str(row + 1)

TotalFormula(row) ==
    "=E" \o Str(row) \o "+F" \o Str(row) \o "+G" \o Str(row)

MoMFormula(row) ==
    "=ROUND((H" \o Str(row) \o "-H" \o Str(row) \o "*0.98)/H" \o Str(row)
        \o "*100,1)"

\* variant: the range stops one row early
SumFormulaShort(c) ==
    "=SUM(" \o get_column_letter(c) \o "3:" \o get_column_letter(c) \o "11)"

SumFormula(c) ==
    "=SUM(" \o get_column_letter(c) \o "3:" \o get_column_letter(c) \o "12)"

CountFormula(row) == "=COUNTIF(EstimateData!C:C,A" \o Str(row) \o ")"

TotalCostFormula(row) ==
    "=SUMIF(EstimateData!C:C,A" \o Str(row) \o ",EstimateData!H:H)"

\* variant: numerator and denominator swapped
AvgFormulaSwapped(row) ==
    "=IF(B" \o Str(row) \o ">0,B" \o Str(row) \o "/C" \o Str(row) \o ",0)"

AvgFormula(row) ==
    "=IF(B" \o Str(row) \o ">0,C" \o Str(row) \o "/B" \o Str(row) \o ",0)"

----------------------------------------------------------------------------
(* Loop ranges                                                             *)

DataRow(k) == k + 3             \* row = i + 3
TotalRowLow == 13 + 2           \* variant: the total row put below a gap
TotalRow == 13
TotalCols == 5..8               \* range(5, 9)
GrayRows == 15..20              \* range(15, 21)
GrayCols == 1..10               \* range(1, 11)
DeptRow(d) == d + 2             \* row = d + 2
SettingRow(k) == k + 2          \* i + 2

----------------------------------------------------------------------------
(* Control                                                                 *)

BuildPcs1 == {"title", "headers", "subheaders", "data", "totallabel", "totals",
              "gray", "condfmt", "freeze", "widths1"}
BuildPcs2 == {"create2", "headers2", "depts", "names", "widths2"}
BuildPcs3 == {"create3", "headers3", "settings", "widths3"}
BuildPcs == {"start"} \cup BuildPcs1 \cup BuildPcs2 \cup BuildPcs3

Phase(p) ==
    CASE p \in {"start"} \cup BuildPcs1 -> "Build1"
      [] p \in BuildPcs2 -> "Build2"
      [] p \in BuildPcs3 -> "Build3"
      [] p = "save" -> "Save"
      [] p = "print" -> "Print"
      [] p = "done" -> "Done"
      [] OTHER -> "Abort"

\* variant: a failed save is tried again
PropagateRetry(p) == IF p = "save" THEN "save" ELSE "abort"

\* There is no try/except anywhere: an exception raised at any statement
\* leaves create_test_workbook and ends the process.
Propagate(p) == "abort"

NoWorkbook == [sheets |-> <<>>, active |-> 0, names |-> {}]

Init ==
    /\ wb = NoWorkbook
    /\ ws1 = 0 /\ ws2 = 0 /\ ws3 = 0
    /\ pc = "start"
    /\ i = 0 /\ j = 0
    /\ file \in {NoContent("absent"), NoContent("other")}
    /\ fileAtStart = file
    /\ out = <<>>
    /\ run = 1

\* wb = Workbook()
NewWorkbook ==
    /\ pc = "start"
    /\ wb' = Workbook
    /\ pc' = "title"
    /\ UNCHANGED <<ws1, ws2, ws3, i, j, file, fileAtStart, out, run>>

\* ws1 = wb.active; ws1.title = "EstimateData"
Ws1Title ==
    /\ pc = "title"
    /\ ws1' = wb.active
    /\ wb' = SetTitle(wb, wb.active, "EstimateData")
    /\ pc' = "headers" /\ i' = 1
    /\ UNCHANGED <<ws2, ws3, j, file, fileAtStart, out, run>>

\* for c, h in enumerate(headers, 1): one iteration
Ws1Header ==
    /\ pc = "headers"
    /\ LET cl == [SetStr(Cell(wb.sheets[ws1], 1, i), headers[i])
                    EXCEPT !.font = bold_font, !.fill = blue_fill,
                           !.border = thin_border]
       IN wb' = [wb EXCEPT !.sheets[ws1] = PutCell(@, 1, i, cl)]
    /\ IF i < Len(headers)
       THEN i' = i + 1 /\ pc' = pc
       ELSE i' = 1 /\ pc' = "subheaders"
    /\ UNCHANGED <<ws1, ws2, ws3, j, file, fileAtStart, out, run>>

\* for c, sh in enumerate(sub_headers, 1): one iteration
Ws1SubHeader ==
    /\ pc = "subheaders"
    /\ LET cl == [SetStr(Cell(wb.sheets[ws1], 2, i), sub_headers[i])
                    EXCEPT !.fill = green_fill]
       IN wb' = [wb EXCEPT !.sheets[ws1] = PutCell(@, 2, i, cl)]
    /\ IF i < Len(sub_headers)
       THEN i' = i + 1 /\ pc' = pc
       ELSE i' = 0 /\ pc' = "data"
    /\ UNCHANGED <<ws1, ws2, ws3, j, file, fileAtStart, out, run>>

\* The nine cell writes of one data record
WriteDataRow(sh, k) ==
    LET row == DataRow(k)
        rec == data[k + 1]
        fmt(cl) == [cl EXCEPT !.number_format = "#,##0"]
        s1 == PutCell(sh, row, 1, SetNum(Cell(sh, row, 1), rec[1]))
        s2 == PutCell(s1, row, 2, SetStr(Cell(s1, row, 2), rec[2]))
        s3 == PutCell(s2, row, 3, SetStr(Cell(s2, row, 3), rec[3]))
        s4 == PutCell(s3, row, 4, SetStr(Cell(s3, row, 4), rec[4]))
        s5 == PutCell(s4, row, 5, fmt(SetNum(Cell(s4, row, 5), rec[5])))
        s6 == PutCell(s5, row, 6, fmt(SetNum(Cell(s5, row, 6), rec[6])))
        s7 == PutCell(s6, row, 7, fmt(SetNum(Cell(s6, row, 7), rec[7])))
        s8 == PutCell(s7, row, 8, fmt(SetStr(Cell(s7, row, 8), TotalFormula(row))))
        s9 == PutCell(s8, row, 9,
                 [SetStr(Cell(s8, row, 9), MoMFormula(row))
                     EXCEPT !.number_format = "0.0"])
    IN s9

\* for i, (...) in enumerate(data): one iteration
Ws1DataRow ==
    /\ pc = "data"
    /\ wb' = [wb EXCEPT !.sheets[ws1] = WriteDataRow(@, i)]
    /\ IF i + 1 < Len(data)
       THEN i' = i + 1 /\ pc' = pc
       ELSE i' = 0 /\ pc' = "totallabel"
    /\ UNCHANGED <<ws1, ws2, ws3, j, file, fileAtStart, out, run>>

\* ws1.cell(row=13, column=4, value="Total").font = bold_font
Ws1TotalLabel ==
    /\ pc = "totallabel"
    /\ LET cl == [SetStr(Cell(wb.sheets[ws1], TotalRow, 4), "Total")
                    EXCEPT !.font = bold_font]
       IN wb' = [wb EXCEPT !.sheets[ws1] = PutCell(@, TotalRow, 4, cl)]
    /\ pc' = "totals" /\ i' = 5
    /\ UNCHANGED <<ws1, ws2, ws3, j, file, fileAtStart, out, run>>

\* for c in range(5, 9): one iteration
Ws1TotalCell ==
    /\ pc = "totals"
    /\ LET cl == [SetStr(Cell(wb.sheets[ws1], TotalRow, i), SumFormula(i))
                    EXCEPT !.number_format = "#,##0", !.font = bold_font,
                           !.fill = orange_fill]
       IN wb' = [wb EXCEPT !.sheets[ws1] = PutCell(@, TotalRow, i, cl)]
    /\ IF i + 1 \in TotalCols
       THEN i' = i + 1 /\ pc' = pc /\ j' = j
       ELSE i' = 15 /\ j' = 1 /\ pc' = "gray"
    /\ UNCHANGED <<ws1, ws2, ws3, file, fileAtStart, out, run>>

\* for r in range(15, 21): for c in range(1, 11): one inner iteration
Ws1GrayCell ==
    /\ pc = "gray"
    /\ LET cl == [Cell(wb.sheets[ws1], i, j) EXCEPT !.fill = gray_fill]
       IN wb' = [wb EXCEPT !.sheets[ws1] = PutCell(@, i, j, cl)]
    /\ IF j + 1 \in GrayCols
       THEN i' = i /\ j' = j + 1 /\ pc' = pc
       ELSE IF i + 1 \in GrayRows
            THEN i' = i + 1 /\ j' = 1 /\ pc' = pc
            ELSE i' = 0 /\ j' = 0 /\ pc' = "condfmt"
    /\ UNCHANGED <<ws1, ws2, ws3, file, fileAtStart, out, run>>

\* variant: the rule also fires on equality
MoMRuleOrEqual ==
    [range |-> "I3:I12", operator |-> "greaterThanOrEqual", formula |-> "2",
     fill |-> red_fill, font |-> red_font]

\* ws1.conditional_formatting.add("I3:I12", CellIsRule(...))
MoMRule ==
    [range |-> "I3:I12", operator |-> "greaterThan", formula |-> "2",
     fill |-> red_fill, font |-> red_font]

Ws1CondFormat ==
    /\ pc = "condfmt"
    /\ wb' = [wb EXCEPT !.sheets[ws1].cf = @ \cup {MoMRule}]
    /\ pc' = "freeze"
    /\ UNCHANGED <<ws1, ws2, ws3, i, j, file, fileAtStart, out, run>>

\* ws1.freeze_panes = "A3"
Ws1Freeze ==
    /\ pc = "freeze"
    /\ wb' = [wb EXCEPT !.sheets[ws1].freeze_panes = "A3"]
    /\ pc' = "widths1"
    /\ UNCHANGED <<ws1, ws2, ws3, i, j, file, fileAtStart, out, run>>

RECURSIVE SetWidths(_, _, _)
SetWidths(sh, ws, k) ==
    IF k > Len(ws) THEN sh
    ELSE SetWidths(SetWidth(sh, get_column_letter(k), ws[k]), ws, k + 1)

\* for col, width in col_widths.items(): the whole loop
Ws1ColWidths ==
    /\ pc = "widths1"
    /\ wb' = [wb EXCEPT !.sheets[ws1] = SetWidths(@, col_widths, 1)]
    /\ pc' = "create2"
    /\ UNCHANGED <<ws1, ws2, ws3, i, j, file, fileAtStart, out, run>>

----------------------------------------------------------------------------
(* Sheet 2: DeptSummary                                                    *)

\* ws2 = wb.create_sheet("DeptSummary")
Ws2Create ==
    /\ pc = "create2"
    /\ wb' = create_sheet(wb, "DeptSummary")
    /\ ws2' = Len(wb.sheets) + 1
    /\ pc' = "headers2" /\ i' = 1
    /\ UNCHANGED <<ws1, ws3, j, file, fileAtStart, out, run>>

\* for c, h in enumerate(dept_headers, 1): one iteration
Ws2Header ==
    /\ pc = "headers2"
    /\ LET cl == [SetStr(Cell(wb.sheets[ws2], 1, i), dept_headers[i])
                    EXCEPT !.font = bold_font, !.fill = blue_fill]
       IN wb' = [wb EXCEPT !.sheets[ws2] = PutCell(@, 1, i, cl)]
    /\ IF i < Len(dept_headers)
       THEN i' = i + 1 /\ pc' = pc
       ELSE i' = 0 /\ pc' = "depts"
    /\ UNCHANGED <<ws1, ws2, ws3, j, file, fileAtStart, out, run>>

\* The four cell writes of one department row
WriteDeptRow(sh, d) ==
    LET row == DeptRow(d)
        fmt(cl) == [cl EXCEPT !.number_format = "#,##0"]
        s1 == PutCell(sh, row, 1, SetStr(Cell(sh, row, 1), depts[d + 1]))
        s2 == PutCell(s1, row, 2, SetStr(Cell(s1, row, 2), CountFormula(row)))
        s3 == PutCell(s2, row, 3,
                 fmt(SetStr(Cell(s2, row, 3), TotalCostFormula(row))))
        s4 == PutCell(s3, row, 4, fmt(SetStr(Cell(s3, row, 4), AvgFormula(row))))
    IN s4

\* for d, dept in enumerate(depts): one iteration
Ws2DeptRow ==
    /\ pc = "depts"
    /\ wb' = [wb EXCEPT !.sheets[ws2] = WriteDeptRow(@, i)]
    /\ IF i + 1 < Len(depts)
       THEN i' = i + 1 /\ pc' = pc
       ELSE i' = 0 /\ pc' = "names"
    /\ UNCHANGED <<ws1, ws2, ws3, j, file, fileAtStart, out, run>>

DefinedName(name, attr_text) == [name |-> name, attr_text |-> attr_text]

\* wb.defined_names.add(dn1); wb.defined_names.add(dn2)
DefinedNames ==
    /\ pc = "names"
    /\ wb' = [wb EXCEPT !.names =
                @ \cup {DefinedName("DeptMaster", "DeptSummary!$A$2:$A$5"),
                        DefinedName("TotalCost", "DeptSummary!$C$2:$C$5")}]
    /\ pc' = "widths2"
    /\ UNCHANGED <<ws1, ws2, ws3, i, j, file, fileAtStart, out, run>>

\* for col in ["A", "B", "C", "D"]: ws2.column_dimensions[col].width = 14
Ws2ColWidths ==
    /\ pc = "widths2"
    /\ wb' = [wb EXCEPT !.sheets[ws2] = SetWidths(@, <<14, 14, 14, 14>>, 1)]
    /\ pc' = "create3"
    /\ UNCHANGED <<ws1, ws2, ws3, i, j, file, fileAtStart, out, run>>

----------------------------------------------------------------------------
(* Sheet 3: Settings                                                       *)

\* ws3 = wb.create_sheet("Settings")
Ws3Create ==
    /\ pc = "create3"
    /\ wb' = create_sheet(wb, "Settings")
    /\ ws3' = Len(wb.sheets) + 1
    /\ pc' = "headers3"
    /\ UNCHANGED <<ws1, ws2, i, j, file, fileAtStart, out, run>>

\* the two bold headers of row 1
Ws3Headers ==
    /\ pc = "headers3"
    /\ LET sh == wb.sheets[ws3]
           a == PutCell(sh, 1, 1,
                   [SetStr(Cell(sh, 1, 1), "SettingName") EXCEPT !.font = bold_font])
           b == PutCell(a, 1, 2,
                   [SetStr(Cell(a, 1, 2), "Value") EXCEPT !.font = bold_font])
       IN wb' = [wb EXCEPT !.sheets[ws3] = b]
    /\ pc' = "settings" /\ i' = 0
    /\ UNCHANGED <<ws1, ws2, ws3, j, file, fileAtStart, out, run>>

SetValue(cl, st) ==
    CASE st[2] = "s" -> SetStr(cl, st[3])
      [] st[2] = "float" -> SetFloat(cl, st[4])
      [] OTHER -> SetNum(cl, st[4])

\* for i, (name, val) in enumerate(settings): one iteration
Ws3Setting ==
    /\ pc = "settings"
    /\ LET sh == wb.sheets[ws3]
           row == SettingRow(i)
           a == PutCell(sh, row, 1, SetStr(Cell(sh, row, 1), settings[i + 1][1]))
           b == PutCell(a, row, 2, SetValue(Cell(a, row, 2), settings[i + 1]))
       IN wb' = [wb EXCEPT !.sheets[ws3] = b]
    /\ IF i + 1 < Len(settings)
       THEN i' = i + 1 /\ pc' = pc
       ELSE i' = 0 /\ pc' = "widths3"
    /\ UNCHANGED <<ws1, ws2, ws3, j, file, fileAtStart, out, run>>

\* ws3.column_dimensions["A"].width = 18; ["B"].width = 14
Ws3ColWidths ==
    /\ pc = "widths3"
    /\ wb' = [wb EXCEPT !.sheets[ws3] = SetWidths(@, <<18, 14>>, 1)]
    /\ pc' = "save"
    /\ UNCHANGED <<ws1, ws2, ws3, i, j, file, fileAtStart, out, run>>

----------------------------------------------------------------------------
(* Save, summary, failure, next run                                        *)

OUTPUT_PATH == "TestWorkbook_HR_Estimate.xlsx"

Summary ==
    <<"Test workbook created: " \o OUTPUT_PATH,
      "  Sheet1: EstimateData (freeze panes, formulas, conditional format, format-only empty cells)",
      "  Sheet2: DeptSummary (cross-sheet formulas, named ranges)",
      "  Sheet3: Settings (master data)",
      "  Note: .xlsx format (no VBA). For VBA testing, use PS script on a PC with valid Excel license.">>

\* wb.save(OUTPUT_PATH) returns: the path now holds this workbook
Save ==
    /\ pc = "save"
    /\ file' = Serialize(wb)
    /\ pc' = "print"
    /\ UNCHANGED <<wb, ws1, ws2, ws3, i, j, fileAtStart, out, run>>

\* variant: the error of a failed save is swallowed and the run goes on
SaveFailSwallowed ==
    /\ pc = "save"
    /\ file' \in {file, [kind |-> "partial", sheets |-> <<>>, active |-> 0,
                         names |-> {}]}
    /\ pc' = "print"
    /\ UNCHANGED <<wb, ws1, ws2, ws3, i, j, fileAtStart, out, run>>

\* wb.save(OUTPUT_PATH) raises.  The archive is opened on the target path
\* itself in mode "w": either the open fails and the path is untouched, or
\* the path has been truncated and holds what was written before the error.
SaveFail ==
    /\ pc = "save"
    /\ file' \in {file, NoContent("partial")}
    /\ pc' = Propagate(pc)
    /\ UNCHANGED <<wb, ws1, ws2, ws3, i, j, fileAtStart, out, run>>

\* the five print() calls
PrintSummary ==
    /\ pc = "print"
    /\ out' = out \o Summary
    /\ pc' = "done"
    /\ UNCHANGED <<wb, ws1, ws2, ws3, i, j, file, fileAtStart, run>>

\* an exception raised by a statement of the build
Raise ==
    /\ pc \in BuildPcs
    /\ pc' = Propagate(pc)
    /\ UNCHANGED <<wb, ws1, ws2, ws3, i, j, file, fileAtStart, out, run>>

\* the program is started again: a new process, the same output path
Rerun ==
    /\ pc \in {"done", "abort"}
    /\ run < MaxRuns
    /\ run' = run + 1
    /\ wb' = NoWorkbook
    /\ ws1' = 0 /\ ws2' = 0 /\ ws3' = 0
    /\ i' = 0 /\ j' = 0
    /\ out' = <<>>
    /\ fileAtStart' = file
    /\ pc' = "start"
    /\ UNCHANGED file

Next ==
    \/ NewWorkbook \/ Ws1Title \/ Ws1Header \/ Ws1SubHeader \/ Ws1DataRow
    \/ Ws1TotalLabel \/ Ws1TotalCell \/ Ws1GrayCell \/ Ws1CondFormat
    \/ Ws1Freeze \/ Ws1ColWidths
    \/ Ws2Create \/ Ws2Header \/ Ws2DeptRow \/ DefinedNames \/ Ws2ColWidths
    \/ Ws3Create \/ Ws3Headers \/ Ws3Setting \/ Ws3ColWidths
    \/ Save \/ SaveFail \/ PrintSummary \/ Raise \/ Rerun

Spec == Init /\ [][Next]_vars

----------------------------------------------------------------------------
(* Reading the formula texts back: how a spreadsheet application           *)
(* tokenises and evaluates what the generator wrote.  The generator never  *)
(* evaluates a formula; these operators are used by the properties only.   *)

LowerLetters == "abcdefghijklmnopqrstuvwxyz"
LetterSet ==
    {SubSeq(Letters, k, k) : k \in 1..26} \cup {SubSeq(LowerLetters, k, k) : k \in 1..26}
DigitSet == {SubSeq(Digits, k, k) : k \in 1..10}

DigitVal(ch) == CHOOSE d \in 0..9 : SubSeq(Digits, d + 1, d + 1) = ch
LetterVal(ch) == CHOOSE d \in 1..26 : SubSeq(Letters, d, d) = ch

RECURSIVE ParseInt(_)
ParseInt(s) ==
    IF Len(s) = 0 THEN 0
    ELSE 10 * ParseInt(SubSeq(s, 1, Len(s) - 1)) + DigitVal(SubSeq(s, Len(s), Len(s)))

\* column letters -> column number (inverse of get_column_letter)
RECURSIVE ColumnIndex(_)
ColumnIndex(s) ==
    IF Len(s) = 0 THEN 0
    ELSE 26 * ColumnIndex(SubSeq(s, 1, Len(s) - 1)) + LetterVal(SubSeq(s, Len(s), Len(s)))

\* first position >= pos whose character is not in class
RECURSIVE RunEnd(_, _, _)
RunEnd(s, pos, class) ==
    IF pos <= Len(s) /\ SubSeq(s, pos, pos) \in class
    THEN RunEnd(s, pos + 1, class) ELSE pos

Tok(t, s, n) == [t |-> t, s |-> s, n |-> n]
Sym(s) == Tok("sym", s, 0)
Name(s) == Tok("name", s, 0)
Num(s) == Tok("num", s, ParseInt(s))

\* tokens of s from pos: cell references (letters then digits), names,
\* numbers, and single-character symbols
RECURSIVE Tokens(_, _)
Tokens(s, pos) ==
    IF pos > Len(s) THEN <<>>
    ELSE LET ch == SubSeq(s, pos, pos)
             le == RunEnd(s, pos, LetterSet)
             de == RunEnd(s, le, DigitSet)
         IN IF ch \in LetterSet
            THEN IF de > le
                 THEN <<Tok("ref", SubSeq(s, pos, le - 1),
                            ParseInt(SubSeq(s, le, de - 1)))>> \o Tokens(s, de)
                 ELSE <<Name(SubSeq(s, pos, le - 1))>> \o Tokens(s, le)
            ELSE IF ch \in DigitSet
                 THEN <<Num(SubSeq(s, pos, de - 1))>> \o Tokens(s, de)
                 ELSE <<Sym(ch)>> \o Tokens(s, pos + 1)

IsRef(tk) == tk.t = "ref"
IsName(tk) == tk.t = "name"

\* the cell references occurring anywhere in a formula text
RefsOf(s) == LET tk == Tokens(s, 1) IN {tk[k] : k \in {m \in DOMAIN tk : IsRef(tk[m])}}

Bad == [op |-> "bad", args |-> <<>>]

\* "=" ref "+" ref "+" ref
ParseAdd(tk) ==
    IF /\ Len(tk) = 6
       /\ tk[1] = Sym("=") /\ IsRef(tk[2]) /\ tk[3] = Sym("+") /\ IsRef(tk[4])
       /\ tk[5] = Sym("+") /\ IsRef(tk[6])
    THEN [op |-> "add", args |-> <<tk[2], tk[4], tk[6]>>] ELSE Bad

\* "=SUM(" ref ":" ref ")"
ParseSum(tk) ==
    IF /\ Len(tk) = 7
       /\ tk[1] = Sym("=") /\ tk[2] = Name("SUM") /\ tk[3] = Sym("(")
       /\ IsRef(tk[4]) /\ tk[5] = Sym(":") /\ IsRef(tk[6]) /\ tk[7] = Sym(")")
    THEN [op |-> "sum", args |-> <<tk[4], tk[6]>>] ELSE Bad

\* "=COUNTIF(" sheet "!" col ":" col "," ref ")"
ParseCountIf(tk) ==
    IF /\ Len(tk) = 11
       /\ tk[1] = Sym("=") /\ tk[2] = Name("COUNTIF") /\ tk[3] = Sym("(")
       /\ IsName(tk[4]) /\ tk[5] = Sym("!") /\ IsName(tk[6]) /\ tk[7] = Sym(":")
       /\ IsName(tk[8]) /\ tk[9] = Sym(",") /\ IsRef(tk[10]) /\ tk[11] = Sym(")")
    THEN [op |-> "countif", args |-> <<tk[4], tk[6], tk[8], tk[10]>>] ELSE Bad

\* "=SUMIF(" sheet "!" col ":" col "," ref "," sheet "!" col ":" col ")"
ParseSumIf(tk) ==
    IF /\ Len(tk) = 17
       /\ tk[1] = Sym("=") /\ tk[2] = Name("SUMIF") /\ tk[3] = Sym("(")
       /\ IsName(tk[4]) /\ tk[5] = Sym("!") /\ IsName(tk[6]) /\ tk[7] = Sym(":")
       /\ IsName(tk[8]) /\ tk[9] = Sym(",") /\ IsRef(tk[10]) /\ tk[11] = Sym(",")
       /\ IsName(tk[12]) /\ tk[13] = Sym("!") /\ IsName(tk[14])
       /\ tk[15] = Sym(":") /\ IsName(tk[16]) /\ tk[17] = Sym(")")
    THEN [op |-> "sumif",
          args |-> <<tk[4], tk[6], tk[8], tk[10], tk[12], tk[14], tk[16]>>]
    ELSE Bad

\* "=IF(" ref ">0," ref "/" ref ",0)"
ParseIfDiv(tk) ==
    IF /\ Len(tk) = 13
       /\ tk[1] = Sym("=") /\ tk[2] = Name("IF") /\ tk[3] = Sym("(")
       /\ IsRef(tk[4]) /\ tk[5] = Sym(">") /\ tk[6] = Num("0") /\ tk[7] = Sym(",")
       /\ IsRef(tk[8]) /\ tk[9] = Sym("/") /\ IsRef(tk[10]) /\ tk[11] = Sym(",")
       /\ tk[12] = Num("0") /\ tk[13] = Sym(")")
    THEN [op |-> "ifdiv", args |-> <<tk[4], tk[8], tk[10]>>] ELSE Bad

\* "=ROUND((" ref "-" ref "*0.98)/" ref "*100,1)"
ParseRoundMoM(tk) ==
    IF /\ Len(tk) = 19
       /\ tk[1] = Sym("=") /\ tk[2] = Name("ROUND") /\ tk[3] = Sym("(")
       /\ tk[4] = Sym("(") /\ IsRef(tk[5]) /\ tk[6] = Sym("-") /\ IsRef(tk[7])
       /\ tk[8] = Sym("*") /\ tk[9] = Num("0") /\ tk[10] = Sym(".")
       /\ tk[11] = Num("98") /\ tk[12] = Sym(")") /\ tk[13] = Sym("/")
       /\ IsRef(tk[14]) /\ tk[15] = Sym("*") /\ tk[16] = Num("100")
       /\ tk[17] = Sym(",") /\ tk[18] = Num("1") /\ tk[19] = Sym(")")
    THEN [op |-> "roundmom", args |-> <<tk[5], tk[7], tk[14]>>] ELSE Bad

ParseFormula(s) ==
    LET tk == Tokens(s, 1)
        all == {ParseAdd(tk), ParseSum(tk), ParseCountIf(tk), ParseSumIf(tk),
                ParseIfDiv(tk), ParseRoundMoM(tk)} \ {Bad}
    IN IF all = {} THEN Bad ELSE CHOOSE a \in all : TRUE

HasSheet(w, title) == \E k \in DOMAIN w.sheets : w.sheets[k].title = title
SheetIndex(w, title) == CHOOSE k \in DOMAIN w.sheets : w.sheets[k].title = title

RECURSIVE SumSeq(_)
SumSeq(q) == IF Len(q) = 0 THEN 0 ELSE q[1] + SumSeq(Tail(q))

RECURSIVE SumSet(_, _)
\* sum of f[x] over the finite set S
SumSet(S, f) ==
    IF S = {} THEN 0
    ELSE LET x == CHOOSE y \in S : TRUE IN f[x] + SumSet(S \ {x}, f)

\* rows of column c of sheet sh whose cell holds the text crit
MatchRows(sh, c, crit) ==
    {p[1] : p \in {q \in DOMAIN sh.cells :
                      q[2] = c /\ sh.cells[q].kind = "s" /\ sh.cells[q].str = crit}}

\* integer value of cell (r, c) of sheet k as a spreadsheet engine computes
\* it; text and empty cells count 0
RECURSIVE Eval(_, _, _, _)
Eval(w, k, r, c) ==
    LET sh == w.sheets[k]
        cl == Cell(sh, r, c)
        f == ParseFormula(cl.str)
        a == f.args
    IN CASE cl.kind = "n" -> cl.num
         [] cl.kind = "f" /\ f.op = "add" ->
              SumSeq([m \in 1..Len(a) |-> Eval(w, k, a[m].n, ColumnIndex(a[m].s))])
         [] cl.kind = "f" /\ f.op = "sum" ->
              LET rg == (a[1].n .. a[2].n) \X (ColumnIndex(a[1].s) .. ColumnIndex(a[2].s))
              IN SumSet(rg, [p \in rg |-> Eval(w, k, p[1], p[2])])
         [] cl.kind = "f" /\ f.op = "countif" /\ HasSheet(w, a[1].s) ->
              LET src == w.sheets[SheetIndex(w, a[1].s)]
                  crit == Cell(sh, a[4].n, ColumnIndex(a[4].s)).str
              IN Cardinality(MatchRows(src, ColumnIndex(a[2].s), crit))
         [] cl.kind = "f" /\ f.op = "sumif" /\ HasSheet(w, a[1].s)
                /\ HasSheet(w, a[5].s) ->
              LET src == w.sheets[SheetIndex(w, a[1].s)]
                  tgt == SheetIndex(w, a[5].s)
                  crit == Cell(sh, a[4].n, ColumnIndex(a[4].s)).str
                  rows == MatchRows(src, ColumnIndex(a[2].s), crit)
              IN SumSet(rows, [x \in rows |-> Eval(w, tgt, x, ColumnIndex(a[6].s))])
         [] OTHER -> 0

\* ROUND(x, 1) of x given in thousandths, result in tenths (half away from 0)
RoundTenths(thousandths) ==
    IF thousandths >= 0 THEN (thousandths + 50) \div 100
    ELSE -((50 - thousandths) \div 100)

\* Largest error, in thousandths, granted to the binary floating point
\* evaluation of (H - H*0.98)/H*100 against the exact quotient.
MaxFloatErr == 1

\* the operands of the MoM formula of cell (r, c) of sheet k
MoMArgs(w, k, r, c) ==
    LET f == ParseFormula(Cell(w.sheets[k], r, c).str)
    IN [m \in 1..Len(f.args) |-> Eval(w, k, f.args[m].n, ColumnIndex(f.args[m].s))]

\* the error an engine shows for the MoM formula, "" when it has a value
MoMError(w, k, r, c) ==
    IF ParseFormula(Cell(w.sheets[k], r, c).str).op # "roundmom" THEN "#VALUE!"
    ELSE IF MoMArgs(w, k, r, c)[3] = 0 THEN "#DIV/0!" ELSE ""

\* the values (in tenths) an engine can show for the MoM formula:
\* (h1 - h2*0.98) in hundredths, / h3 * 100 in thousandths, then ROUND(.,1)
MoMValues(w, k, r, c) ==
    LET h == MoMArgs(w, k, r, c)
    IN IF MoMError(w, k, r, c) # "" THEN {}
       ELSE {RoundTenths((((h[1] * 100 - h[2] * 98) * 1000) \div h[3]) + e) :
                e \in -MaxFloatErr..MaxFloatErr}

----------------------------------------------------------------------------
(* Properties                                                              *)

SheetTitles(w) == [k \in DOMAIN w.sheets |-> w.sheets[k].title]

Built == pc \in {"save", "print", "done"}

\* C1: when the save step is reached the workbook holds exactly the three
\* sheets EstimateData, DeptSummary, Settings, in that order, with pairwise
\* distinct names; the saved file holds the same three sheets.
C1_ThreeSheets ==
    /\ pc = "save" =>
          /\ SheetTitles(wb) = <<"EstimateData", "DeptSummary", "Settings">>
          /\ \A a, b \in DOMAIN wb.sheets :
                a # b => wb.sheets[a].title # wb.sheets[b].title
          /\ <<ws1, ws2, ws3>> = <<1, 2, 3>>
    /\ pc \in {"print", "done"} =>
          SheetTitles(file) = <<"EstimateData", "DeptSummary", "Settings">>

C1_Witness == pc = "save" /\ Len(wb.sheets) = 3 /\ run = MaxRuns

\* C2: for every data row r in 3..12, H(r) of EstimateData is the formula
\* =E{r}+F{r}+G{r}, every reference in it is to row r, and its value over the
\* literals in E(r), F(r), G(r) is base + role allowance + commute allowance
\* of the r-th record.
C2_TotalFormula ==
    Built =>
       /\ Cell(wb.sheets[ws1], 3, 8).str = "=E3+F3+G3"
       /\ Cell(wb.sheets[ws1], 12, 8).str = "=E12+F12+G12"
       /\ \A r \in 3..12 :
            LET sh == wb.sheets[ws1]
                cl == Cell(sh, r, 8)
                f == ParseFormula(cl.str)
            IN /\ cl.kind = "f"
               /\ f.op = "add"
               /\ [m \in 1..3 |-> f.args[m].s] = <<"E", "F", "G">>
               /\ \A t \in RefsOf(cl.str) : t.n = r
               /\ \A c \in 5..7 : Cell(sh, r, c).kind = "n"
               /\ <<Cell(sh, r, 5).num, Cell(sh, r, 6).num, Cell(sh, r, 7).num>>
                     = <<data[r - 2][5], data[r - 2][6], data[r - 2][7]>>
               /\ Eval(wb, ws1, r, 8)
                     = data[r - 2][5] + data[r - 2][6] + data[r - 2][7]

C2_Witness ==
    pc = "save" /\ Eval(wb, ws1, 12, 8) = 290000 /\ Eval(wb, ws1, 3, 8) = 415000

\* sum of field f of the ten data records
DataSum(f) == SumSeq([k \in 1..Len(data) |-> data[k][f]])

\* C3: in row 13 of EstimateData each of E..H holds =SUM(<col>3:<col>12) for
\* its own column letter, its value is the sum of rows 3..12 of that column,
\* H13 = E13 + F13 + G13, and no other cell of row 13 holds a SUM formula.
C3_SumRow ==
    Built =>
       LET sh == wb.sheets[ws1] IN
       /\ <<Cell(sh, 13, 5).str, Cell(sh, 13, 6).str, Cell(sh, 13, 7).str,
            Cell(sh, 13, 8).str>>
             = <<"=SUM(E3:E12)", "=SUM(F3:F12)", "=SUM(G3:G12)", "=SUM(H3:H12)">>
       /\ \A c \in 5..8 :
            LET cl == Cell(sh, 13, c)
                f == ParseFormula(cl.str)
            IN /\ cl.kind = "f" /\ f.op = "sum"
               /\ <<ColumnIndex(f.args[1].s), f.args[1].n>> = <<c, 3>>
               /\ <<ColumnIndex(f.args[2].s), f.args[2].n>> = <<c, 12>>
               /\ Eval(wb, ws1, 13, c)
                     = SumSeq([k \in 1..10 |-> Eval(wb, ws1, k + 2, c)])
       /\ <<Eval(wb, ws1, 13, 5), Eval(wb, ws1, 13, 6), Eval(wb, ws1, 13, 7)>>
             = <<DataSum(5), DataSum(6), DataSum(7)>>
       /\ Eval(wb, ws1, 13, 8)
             = Eval(wb, ws1, 13, 5) + Eval(wb, ws1, 13, 6) + Eval(wb, ws1, 13, 7)
       /\ \A p \in DOMAIN sh.cells :
            p[1] = 13 /\ p[2] \notin 5..8 =>
               /\ sh.cells[p].kind # "f"
               /\ ParseFormula(sh.cells[p].str).op # "sum"
       /\ \A c \in (1..4) \cup {9, 10} : Cell(sh, 13, c).kind # "f"

C3_Witness ==
    pc = "save" /\ Eval(wb, ws1, 13, 8) = 3510000 /\ Eval(wb, ws1, 13, 5) = 3110000

\* C4: DeptSummary rows 2..5 hold Sales, HR, Tech, Admin in column A, once
\* each and in that order; in row r Count is COUNTIF(EstimateData!C:C, A(r)),
\* TotalCost is SUMIF(EstimateData!C:C, A(r), EstimateData!H:H), AvgSalary is
\* IF(B(r)>0, C(r)/B(r), 0), and every cell reference is to row r.
C4_DeptFormulas ==
    Built =>
       LET sh == wb.sheets[ws2] IN
       /\ [r \in 2..5 |-> Cell(sh, r, 1).str]
             = [r \in 2..5 |-> <<"Sales", "HR", "Tech", "Admin">>[r - 1]]
       /\ \A r \in 2..5 : Cell(sh, r, 1).kind = "s"
       /\ \A r1, r2 \in 2..5 : r1 # r2 => Cell(sh, r1, 1).str # Cell(sh, r2, 1).str
       /\ \A r \in 2..5 :
            LET cnt == ParseFormula(Cell(sh, r, 2).str)
                tot == ParseFormula(Cell(sh, r, 3).str)
                avg == ParseFormula(Cell(sh, r, 4).str)
            IN /\ \A c \in 2..4 : Cell(sh, r, c).kind = "f"
               /\ cnt.op = "countif"
               /\ [m \in 1..3 |-> cnt.args[m].s] = <<"EstimateData", "C", "C">>
               /\ <<cnt.args[4].s, cnt.args[4].n>> = <<"A", r>>
               /\ tot.op = "sumif"
               /\ [m \in 1..3 |-> tot.args[m].s] = <<"EstimateData", "C", "C">>
               /\ <<tot.args[4].s, tot.args[4].n>> = <<"A", r>>
               /\ [m \in 5..7 |-> tot.args[m].s]
                     = [m \in 5..7 |-> <<"EstimateData", "H", "H">>[m - 4]]
               /\ avg.op = "ifdiv"
               /\ [m \in 1..3 |-> <<avg.args[m].s, avg.args[m].n>>]
                     = <<<<"B", r>>, <<"C", r>>, <<"B", r>>>>
               /\ \A c \in 2..4 : \A t \in RefsOf(Cell(sh, r, c).str) : t.n = r

C4_Witness ==
    /\ pc = "save"
    /\ Cell(wb.sheets[ws2], 5, 4).str = "=IF(B5>0,C5/B5,0)"
    /\ Cell(wb.sheets[ws2], 2, 2).str = "=COUNTIF(EstimateData!C:C,A2)"

GrayRegion == (15..20) \X (1..10)

\* C5: no step ever puts a value or formula into rows 15..20 x columns A..J
\* of EstimateData; at the save step all 60 cells exist with the gray
\* (non-default) fill and no value, they reach the file like that, and a
\* later run reproduces the same region.
C5_StyledButEmpty ==
    /\ ws1 # 0 =>
          \A p \in GrayRegion : Cell(wb.sheets[ws1], p[1], p[2]).kind = "empty"
    /\ pc = "save" =>
          \A p \in GrayRegion :
             /\ p \in DOMAIN wb.sheets[ws1].cells
             /\ wb.sheets[ws1].cells[p].fill = "F2F2F2"
             /\ wb.sheets[ws1].cells[p].fill # DefaultCell.fill
    /\ pc \in {"print", "done"} =>
          \A p \in GrayRegion :
             /\ p \in DOMAIN file.sheets[1].cells
             /\ file.sheets[1].cells[p].kind = "empty"
             /\ file.sheets[1].cells[p].fill = "F2F2F2"
    /\ pc \in {"print", "done"} /\ fileAtStart.kind = "xlsx" =>
          \A p \in GrayRegion :
             file.sheets[1].cells[p] = fileAtStart.sheets[1].cells[p]

C5_Witness ==
    /\ pc = "done" /\ run = MaxRuns /\ fileAtStart.kind = "xlsx"
    /\ file.sheets[1].cells[<<20, 10>>].fill = "F2F2F2"

\* C6: a run that starts with the file of an earlier successful run on the
\* output path leaves exactly the same content there (sheets and their
\* order, cells, styles, rules, names, freeze pane, widths); whatever the
\* path held before, a successful run leaves a workbook of three sheets and
\* two names.
C6_Deterministic ==
    pc \in {"print", "done"} =>
       /\ fileAtStart.kind = "xlsx" => file = fileAtStart
       /\ file.kind = "xlsx"
       /\ Len(file.sheets) = 3
       /\ Cardinality(file.names) = 2

C6_Witness ==
    /\ pc = "done" /\ run > 1 /\ fileAtStart.kind = "xlsx" /\ file = fileAtStart
    /\ file.sheets[1].freeze_panes = "A3"

BuildComplete ==
    /\ Len(wb.sheets) = 3 /\ ws3 = 3
    /\ DOMAIN wb.sheets[3].widths = {"A", "B"}

\* C7 as stated: in every terminal state the output path holds the complete
\* fixture of this run or nothing written by this run.
C7_AllOrNothing ==
    pc \in {"done", "abort"} => file = Serialize(wb) \/ file = fileAtStart

\* C7 amended: after a successful run the path holds the complete fixture of
\* this run; after a failed run it holds what it held when the run started
\* or a partially written file, and a partially written file is left only by
\* a save that failed after the build had completed; the summary is printed
\* only over a complete file.
C7_Amended ==
    /\ pc = "done" =>
          /\ file = Serialize(wb)
          /\ SheetTitles(file) = <<"EstimateData", "DeptSummary", "Settings">>
    /\ pc = "abort" =>
          \/ file = fileAtStart
          \/ file.kind = "partial" /\ BuildComplete
    /\ pc \in BuildPcs \cup {"save"} => file = fileAtStart
    /\ out # <<>> => file.kind = "xlsx"

C7_Witness ==
    pc = "abort" /\ file.kind = "partial" /\ fileAtStart.kind = "xlsx"

PhaseRank(ph) ==
    CASE ph = "Build1" -> 1 [] ph = "Build2" -> 2 [] ph = "Build3" -> 3
      [] ph = "Save" -> 4 [] ph = "Print" -> 5 [] ph = "Done" -> 6
      [] OTHER -> 7

\* C8: within a run the phases follow Build(EstimateData), Build(DeptSummary),
\* Build(Settings), Save, print summary, each entered only from its
\* predecessor and never re-entered; the summary is printed only after a
\* successful save, and a failed build or save ends in the abort state with
\* nothing printed.
C8_LinearPhases ==
    /\ [](out # <<>> => pc = "done" /\ file = Serialize(wb))
    /\ [](pc = "abort" => out = <<>>)
    /\ [](pc = "done" => out = Summary)
    /\ [][run' = run =>
            LET a == Phase(pc)
                b == Phase(pc')
            IN \/ a = b /\ a \in {"Build1", "Build2", "Build3"}
               \/ PhaseRank(b) = PhaseRank(a) + 1 /\ b # "Abort"
               \/ b = "Abort" /\ a \in {"Build1", "Build2", "Build3", "Save"}]_vars
    /\ [][run' # run => pc \in {"done", "abort"} /\ pc' = "start"]_vars

C8_Witness == pc = "done" /\ out = Summary /\ Len(out) = 5 /\ run = MaxRuns

\* C9: the ten records all belong to one of the four departments, no other
\* cell of EstimateData column C matches a department, so the Counts of
\* DeptSummary rows 2..5 sum to 10, every Count is positive (AvgSalary never
\* takes its 0 branch) and the TotalCosts sum to EstimateData H13.
C9_DeptPartition ==
    Built =>
       LET sh == wb.sheets[ws1]
           names == {"Sales", "HR", "Tech", "Admin"}
       IN
       /\ \A r \in 3..12 :
             Cell(sh, r, 3).kind = "s" /\ Cell(sh, r, 3).str \in names
       /\ \A p \in DOMAIN sh.cells :
             p[2] = 3 /\ p[1] \notin 3..12 => sh.cells[p].str \notin names
       /\ Cell(sh, 1, 3).str = "Dept" /\ Cell(sh, 2, 3).str = ""
       /\ Cell(sh, 13, 3).kind = "empty"
       /\ SumSeq([k \in 1..4 |-> Eval(wb, ws2, k + 1, 2)]) = 10
       /\ \A r \in 2..5 :
             /\ Eval(wb, ws2, r, 2) > 0
             /\ LET avg == ParseFormula(Cell(wb.sheets[ws2], r, 4).str)
                IN avg.op = "ifdiv"
                   /\ Eval(wb, ws2, avg.args[1].n, ColumnIndex(avg.args[1].s)) > 0
       /\ SumSeq([k \in 1..4 |-> Eval(wb, ws2, k + 1, 3)]) = Eval(wb, ws1, 13, 8)
       /\ Eval(wb, ws1, 13, 8) = DataSum(5) + DataSum(6) + DataSum(7)

C9_Witness ==
    /\ pc = "save"
    /\ [r \in 2..5 |-> Eval(wb, ws2, r, 2)] = [r \in 2..5 |-> <<3, 2, 3, 2>>[r - 1]]
    /\ Eval(wb, ws2, 2, 3) = 1288000

\* the cells (row, column) of a range text such as "I3:I12"
RangeCells(s) ==
    LET tk == Tokens(s, 1)
    IN (tk[1].n .. tk[3].n) \X (ColumnIndex(tk[1].s) .. ColumnIndex(tk[3].s))

\* does a value (in tenths) satisfy a CellIsRule
RuleHolds(rule, tenths) ==
    CASE rule.operator = "greaterThan" -> tenths > 10 * ParseInt(rule.formula)
      [] rule.operator = "greaterThanOrEqual" -> tenths >= 10 * ParseInt(rule.formula)
      [] rule.operator = "lessThan" -> tenths < 10 * ParseInt(rule.formula)
      [] OTHER -> FALSE

\* C10: for every data row r in 3..12 the Total H(r) is positive, so the MoM
\* formula of I(r) does not divide by zero and shows 2.0, and the rule on
\* I3:I12 (cell value > 2) is satisfied by no cell.
C10_MoM ==
    Built =>
       LET sh == wb.sheets[ws1] IN
       /\ \A r \in 3..12 :
             /\ Eval(wb, ws1, r, 8) > 0
             /\ Cell(sh, r, 9).kind = "f"
             /\ \A t \in RefsOf(Cell(sh, r, 9).str) : t = Tok("ref", "H", r)
             /\ MoMError(wb, ws1, r, 9) = ""
             /\ MoMValues(wb, ws1, r, 9) = {20}
       /\ \E rule \in sh.cf : RangeCells(rule.range) = (3..12) \X {9}
       /\ \A rule \in sh.cf : \A p \in RangeCells(rule.range) :
             \A v \in MoMValues(wb, ws1, p[1], p[2]) : ~RuleHolds(rule, v)

C10_Witness ==
    /\ pc = "save"
    /\ MoMValues(wb, ws1, 12, 9) = {20}
    /\ \E rule \in wb.sheets[ws1].cf : rule.operator = "greaterThan"

====
